---- MODULE Spec2Model ----
(***************************************************************************)
(* Batch prediction jobs of ecosort-be: the background runner              *)
(* (PredictionService.ProcessPredictions), the WebSocket subscription      *)
(* handler (PredictionsWebSocketHandler), the poll handler                 *)
(* (JobProgressHandler) and the two process-wide maps they share,          *)
(* jobProgressMap (the job store) and wsConnections (the subscriber        *)
(* registry), each an embedded sync.RWMutex plus a Go map.                 *)
(*                                                                         *)
(* Goroutines are numbered: the runner is 0, the handler serving           *)
(* connection c is c (1..MaxConns+1), the poll handler is MaxConns + 2.    *)
(* One step of the model is one statement (or one lock operation) of the   *)
(* code; a successful write on a websocket connection takes two steps      *)
(* (begin, end) so that two goroutines writing the same connection at the  *)
(* same time is a state of the model. A map access that no lock orders     *)
(* against a concurrent write is a data race: the access takes effect      *)
(* before or after the write, copies a half-written entry, or the Go       *)
(* runtime ends the process.                                               *)
(***************************************************************************)
EXTENDS Integers, Sequences, FiniteSets, TLC

\* ---------------------------------------------------------------- bounds
MaxFiles == 11      \* most files uploaded in one batch
MaxFailed == 1      \* most files of a batch whose classification fails (SpecRunner)
MaxItems == 25      \* most files of a batch when the runner runs alone (SpecRunner)
MaxCallers == 3     \* goroutines calling PredictImage at once (SpecSession)
MaxCalls == 2       \* calls of PredictImage per goroutine (SpecSession)
MaxConns == 1       \* websocket connections opened during a run of Spec;
                    \* SpecTwo opens one more, a rival for the same JobID

\* ------------------------------------------------------ program constants
batchSize == 10     \* ProcessPredictions: batchSize := 10

JOB == "job"        \* the JobID BatchPredict generated
GHOST == "ghost"    \* a JobID no BatchPredict ever generated
JobIDs == {JOB, GHOST}

Conns == 1..MaxConns
AllConns == 1..(MaxConns + 1)
NilConn == 0        \* a nil *websocket.Conn (map miss)
Runner == 0
Poller == MaxConns + 2
Callers == 1..MaxCallers

\* ------------------------------------------------------------ data types
\* Go's zero JobProgress, which a map miss yields; ok is the lookup's second
\* result.
NoProgress == [ok |-> FALSE, progress |-> 0, status |-> "", predictions |-> <<>>]

JobProgress(p, s, preds) ==
    [ok |-> TRUE, progress |-> p, status |-> s, predictions |-> preds]

\* min that never clamps: the chunk end runs past total.
minUnclamped(a, b) == a

min(a, b) == IF a < b THEN a ELSE b

IsPrefix(s, t) == Len(s) <= Len(t) /\ SubSeq(t, 1, Len(s)) = s

\* JobImagePrediction with the error of PredictImage ignored.
JobImagePredictionIgnoringErr(j, err) ==
    [imageName |-> j, status |-> "Completed", prediction |-> IF err THEN "" ELSE "class"]

\* One JobImagePrediction: file number j (1-based), err = the PredictImage
\* call returned an error.
JobImagePrediction(j, err) ==
    [imageName |-> j,
     status |-> IF err THEN "Failed" ELSE "Completed",
     prediction |-> IF err THEN "" ELSE "class"]

\* The inner loop of ProcessPredictions over files i..end-1 (0-based), i.e.
\* file numbers i+1..end; bad is the set of file numbers whose PredictImage
\* fails.
RECURSIVE ChunkPredictions(_, _, _)
ChunkPredictions(i, end, bad) ==
    IF i >= end THEN <<>>
    ELSE <<JobImagePrediction(i + 1, (i + 1) \in bad)>>
         \o ChunkPredictions(i + 1, end, bad)

\* ChunkUpdate with the percentage taken of the batch size, not of total.
ChunkUpdateOfBatch(i, n, bad) ==
    LET end == min(i + batchSize, n)
    IN  JobProgress((end * 100) \div batchSize, "running",
                    ChunkPredictions(i, end, bad))

\* The update built after the chunk starting at i.
ChunkUpdate(i, n, bad) ==
    LET end == min(i + batchSize, n)
    IN  JobProgress((end * 100) \div n, "running", ChunkPredictions(i, end, bad))

\* Upsert that puts the new results in front of the stored ones.
UpsertPrepend(prev, upd) ==
    IF ~prev.ok THEN upd
    ELSE [upd EXCEPT !.predictions = upd.predictions \o prev.predictions]

\* The store write of lines 147-153: create, or append to what is there.
Upsert(prev, upd) ==
    IF ~prev.ok THEN upd
    ELSE [upd EXCEPT !.predictions = prev.predictions \o upd.predictions]

\* Lines 165-175 when nothing interleaves: finalUpdate takes the stored
\* predictions (none if there is no record).
FinalUpdate(prev) == JobProgress(100, "completed", prev.predictions)

\* The records the loop of ProcessPredictions stores, chunk after chunk, from
\* the chunk starting at i on, when nothing else touches the store.
RECURSIVE ChunkWrites(_, _, _, _)
ChunkWrites(i, n, bad, prev) ==
    IF i >= n THEN <<>>
    ELSE LET stored == Upsert(prev, ChunkUpdate(i, n, bad))
         IN  <<stored>> \o ChunkWrites(i + batchSize, n, bad, stored)

\* Every store write of one undisturbed ProcessPredictions call, in order:
\* the chunk writes, the write of line 170/174, the write of line 177.
RunnerWrites(n, bad) ==
    LET chunks == ChunkWrites(0, n, bad, NoProgress)
        final == FinalUpdate(chunks[Len(chunks)])
    IN  chunks \o <<final, final>>

\* Iterations of the loop of line 115 for n files.
NumChunks(n) == (n + batchSize - 1) \div batchSize

\* ----------------------------------------------------------------- state
VARIABLES
    total,        \* len(files) of the job; 0 before BatchPredict
    failing,      \* file numbers whose PredictImage returns an error
    dirExists,    \* the job directory wsjobs/<jobID> exists
    Data,         \* jobProgressMap.Data
    jpmWriter,    \* goroutines holding jobProgressMap.Lock
    jpmReaders,   \* goroutines holding jobProgressMap.RLock
    Connections,  \* wsConnections.Connections
    wscWriter,    \* goroutines holding wsConnections.Lock
    wscReaders,   \* goroutines holding wsConnections.RLock
    rpc,          \* the runner's position
    i,            \* the runner's loop variable
    jdone,        \* files of the current chunk already classified (j - i)
    update,       \* the runner's update / finalUpdate
    rws,          \* the connection the runner looked up
    pushErr,      \* the runner's last write returned an error (discarded)
    hpc,          \* each handler's position
    hjob,         \* each handler's jobID
    hprogress,    \* each handler's local `progress`
    hws,          \* the connection a handler read at lines 124-125
    connState,    \* per connection: "new", "open", "closeSent", "gone", "closed"
    writing,      \* per connection: goroutines in the middle of a write
    sent,         \* per connection: the frames written to it, in order, kept
                  \* while the connection can still carry one
    ppc,          \* the poll handler's position
    pjob,         \* the poll handler's jobID
    crashed,      \* the process died of an unrecovered panic
    writes,       \* history: the records the runner stored for JOB, in order
    evicted,      \* history: a handler deleted JOB's record
    lateSubs,     \* history: the live connections that were opened when
                  \* JOB's record was already "completed"
    sessionMutex, \* goroutines holding PredictionService.sessionMutex
    spc,          \* per calling goroutine: its position in PredictImage
    calls         \* per calling goroutine: calls of PredictImage returned

vars == <<total, failing, dirExists, Data, jpmWriter, jpmReaders, Connections,
          wscWriter, wscReaders, rpc, i, jdone, update, rws, pushErr, hpc, hjob, hprogress, hws,
          connState, writing, sent, ppc, pjob, crashed, writes, evicted,
          lateSubs, sessionMutex, spc, calls>>

sessionVars == <<sessionMutex, spc, calls>>
inputVars == <<total, failing>>
storeVars == <<Data, jpmWriter, jpmReaders>>
registryVars == <<Connections, wscWriter, wscReaders>>
runnerVars == <<rpc, i, jdone, update, rws, pushErr>>
handlerVars == <<hpc, hjob, hprogress, hws>>
connVars == <<connState, writing, sent>>
pollVars == <<ppc, pjob>>
histVars == <<writes, evicted, lateSubs>>

Init ==
    /\ total = 0
    /\ failing = {}
    /\ dirExists = FALSE
    /\ Data = [id \in JobIDs |-> NoProgress]
    /\ jpmWriter = {}
    /\ jpmReaders = {}
    /\ Connections = [id \in JobIDs |-> NilConn]
    /\ wscWriter = {}
    /\ wscReaders = {}
    /\ rpc = "idle"
    /\ i = 0
    /\ jdone = 0
    /\ update = NoProgress
    /\ rws = NilConn
    /\ pushErr = FALSE
    /\ hpc = [c \in AllConns |-> "idle"]
    /\ hjob = [c \in AllConns |-> JOB]
    /\ hprogress = [c \in AllConns |-> NoProgress]
    /\ hws = [c \in AllConns |-> NilConn]
    /\ connState = [c \in AllConns |-> "new"]
    /\ writing = [c \in AllConns |-> {}]
    /\ sent = [c \in AllConns |-> <<>>]
    /\ ppc = "idle"
    /\ pjob = JOB
    /\ crashed = FALSE
    /\ writes = <<>>
    /\ evicted = FALSE
    /\ lateSubs = {}
    /\ sessionMutex = {}
    /\ spc = [g \in Callers |-> "idle"]
    /\ calls = [g \in Callers |-> 0]


\* ------------------------------------------------- websocket connections
\* gorilla/websocket: a write succeeds only on a connection that is open
\* (no close frame sent, not closed locally, peer still there).
Message(kind, jp) == [kind |-> kind, body |-> jp]

CanWrite(c) == connState[c] = "open"

\* Another goroutine is in the middle of a write on c: the library's
\* isWriting check may panic ("concurrent write to websocket connection").
Overlap(g, c) == writing[c] \ {g} # {}

BeginWrite(g, c) == writing' = [writing EXCEPT ![c] = @ \cup {g}]

\* The end of a write: the frame is on the wire if the connection is still
\* open; a close frame puts the connection in the close-sent state.
EndWrite(g, c, m) ==
    /\ writing' = [writing EXCEPT ![c] = @ \ {g}]
    /\ IF connState[c] = "open"
       THEN /\ sent' = [sent EXCEPT ![c] = Append(@, m)]
            /\ connState' = IF m.kind = "close"
                            THEN [connState EXCEPT ![c] = "closeSent"]
                            ELSE connState
       ELSE UNCHANGED <<sent, connState>>

\* ------------------------------------------------------ unsynchronised maps
\* Every variable but `crashed`.
liveVars == <<sessionVars, inputVars, dirExists, storeVars, registryVars,
              runnerVars, handlerVars, connVars, pollVars, histVars>>

\* The Go runtime finds a map read or written while another goroutine writes
\* it: "fatal error: concurrent map read and map write" or "concurrent map
\* writes". It is not a panic, nothing recovers it: the process ends.
Fatal == crashed' = TRUE /\ UNCHANGED liveVars

\* Goroutines whose next step reads jobProgressMap.Data: the runner at lines
\* 169 and 172, a handler at line 120, the poll handler at line 154.
StoreReaders ==
    (IF (rpc = "loop" /\ i >= total) \/ rpc = "l172" THEN {Runner} ELSE {})
        \cup {c \in AllConns : hpc[c] = "l120"}
        \cup (IF ppc = "l154" THEN {Poller} ELSE {})

\* Goroutines whose next step writes jobProgressMap.Data: the runner at lines
\* 147-153, 170, 174 and 177, a handler at line 123.
StoreWriters ==
    (IF rpc \in {"l147", "l170", "l174", "l177"} THEN {Runner} ELSE {})
        \cup {c \in AllConns : hpc[c] = "d123"}

\* The read (write) of jobProgressMap.Data goroutine g is about to make runs
\* concurrently with an access of another goroutine it conflicts with.
StoreReadRace(g) == StoreWriters \ {g} # {}

StoreWriteRace(g) == (StoreReaders \cup StoreWriters) \ {g} # {}

\* What the goroutines other than g are about to store under key id; a delete
\* clears the entry.
PendingStores(id, g) ==
    (IF g # Runner /\ id = JOB /\ rpc = "l147"
     THEN {Upsert(Data[JOB], update)} ELSE {})
        \cup (IF g # Runner /\ id = JOB /\ rpc \in {"l170", "l174", "l177"}
               THEN {update} ELSE {})
        \cup {NoProgress : c \in {d \in AllConns \ {g} :
                                      hpc[d] = "d123" /\ hjob[d] = id}}

\* The copies a read can make of an entry while it is overwritten: the old
\* entry, the new one, or an entry found with each field old or new.
Mixed(old, new) ==
    {old, new}
        \cup (IF old.ok \/ new.ok
               THEN {JobProgress(p, st, q) :
                         p \in {old.progress, new.progress},
                         st \in {old.status, new.status},
                         q \in {old.predictions, new.predictions}}
               ELSE {})

\* What goroutine g can read as jobProgressMap.Data[id] in this state.
RacyReads(id, g) ==
    {Data[id]} \cup UNION {Mixed(Data[id], new) : new \in PendingStores(id, g)}

\* Goroutines whose next step reads wsConnections.Connections: the runner in
\* getWebSocketConnection, a handler at lines 124 and 125.
RegistryReaders ==
    (IF rpc \in {"ws157r", "ws179r"} THEN {Runner} ELSE {})
        \cup {c \in AllConns : hpc[c] \in {"w124", "c125"}}

\* Goroutines whose next step writes wsConnections.Connections: a handler at
\* line 114 or 140.
RegistryWriters == {c \in AllConns : hpc[c] \in {"l114", "l140"}}

RegistryReadRace(g) == RegistryWriters \ {g} # {}

RegistryWriteRace(g) == (RegistryReaders \cup RegistryWriters) \ {g} # {}

\* ------------------------------------------------------------ BatchPredict
\* BatchPredict that also stores an initial record for the job.
BatchPredictStoring(n, bad) ==
    /\ ~crashed
    /\ rpc = "idle"
    /\ total' = n
    /\ failing' = bad
    /\ dirExists' = TRUE
    /\ rpc' = "loop"
    /\ i' = 0
    /\ Data' = [Data EXCEPT ![JOB] = JobProgress(0, "queued", <<>>)]
    /\ UNCHANGED <<sessionVars, jdone, jpmWriter, jpmReaders, registryVars, update, rws,
                   pushErr, handlerVars, connVars, pollVars, crashed, histVars>>

\* BatchPredict: a non-empty upload; creates the job directory and starts
\* ProcessPredictions in the background.
BatchPredict(n, bad) ==
    /\ ~crashed
    /\ rpc = "idle"
    /\ total' = n
    /\ failing' = bad
    /\ dirExists' = TRUE
    /\ rpc' = "loop"
    /\ i' = 0
    /\ UNCHANGED <<sessionVars, jdone, storeVars, registryVars, update, rws, pushErr, handlerVars, connVars,
                   pollVars, crashed, histVars>>

\* ------------------------------------------------------ ProcessPredictions
\* Lines 115-120, 371-380 and 329-335: the loop conditions hold and the
\* runner calls PredictImage for the next file of the chunk. A file that
\* fails may fail in preprocessImage or tf.NewTensor, before the lock; any
\* other call goes on to line 338.
RunnerPredict120 ==
    /\ ~crashed
    /\ rpc = "loop"
    /\ i < total
    /\ i + jdone < min(i + batchSize, total)
    /\ \/ /\ (i + jdone + 1) \in failing
          /\ jdone' = jdone + 1
          /\ rpc' = "loop"
       \/ /\ rpc' = "lock338"
          /\ jdone' = jdone
    /\ UNCHANGED <<sessionVars, inputVars, dirExists, storeVars, registryVars, i,
                   update, rws, pushErr, handlerVars, connVars, pollVars,
                   crashed, histVars>>

\* Line 338, called from line 120: p.sessionMutex.Lock().
RunnerSessionLock338 ==
    /\ ~crashed
    /\ rpc = "lock338"
    /\ sessionMutex = {}
    /\ sessionMutex' = {Runner}
    /\ rpc' = "run341"
    /\ UNCHANGED <<spc, calls, inputVars, dirExists, storeVars, registryVars, i, jdone,
                   update, rws, pushErr, handlerVars, connVars, pollVars,
                   crashed, histVars>>

\* Lines 341-366 and 121-135: Session.Run, the deferred Unlock, and the
\* file's JobImagePrediction appended to `predictions`.
RunnerSessionRun341 ==
    /\ ~crashed
    /\ rpc = "run341"
    /\ sessionMutex' = sessionMutex \ {Runner}
    /\ jdone' = jdone + 1
    /\ rpc' = "loop"
    /\ UNCHANGED <<spc, calls, inputVars, dirExists, storeVars, registryVars, i,
                   update, rws, pushErr, handlerVars, connVars, pollVars,
                   crashed, histVars>>

\* Lines 119 and 138-142: every file of the chunk is classified, the update
\* is built.
RunnerChunk ==
    /\ ~crashed
    /\ rpc = "loop"
    /\ i < total
    /\ i + jdone = min(i + batchSize, total)
    /\ update' = ChunkUpdate(i, total, failing)
    /\ jdone' = 0
    /\ rpc' = "lock145"
    /\ pushErr' = FALSE
    /\ UNCHANGED <<sessionVars, inputVars, dirExists, storeVars, registryVars, i, rws,
                   handlerVars, connVars, pollVars, crashed, histVars>>

\* Line 145: jobProgressMap.Lock().
RunnerLock145 ==
    /\ ~crashed
    /\ rpc = "lock145"
    /\ jpmWriter = {}
    /\ jpmReaders = {}
    /\ jpmWriter' = {Runner}
    /\ rpc' = "l147"
    /\ UNCHANGED <<sessionVars, jdone, inputVars, dirExists, Data, jpmReaders, registryVars, i,
                   update, rws, pushErr, handlerVars, connVars, pollVars, crashed,
                   histVars>>

\* RunnerStore147 that leaves `update` with the chunk's own predictions.
RunnerStore147ChunkOnly ==
    /\ ~crashed
    /\ rpc = "l147"
    /\ LET stored == Upsert(Data[JOB], update)
       IN  /\ Data' = [Data EXCEPT ![JOB] = stored]
           /\ writes' = Append(writes, stored)
    /\ jpmWriter' = jpmWriter \ {Runner}
    /\ rpc' = "ws157"
    /\ UNCHANGED <<sessionVars, jdone, inputVars, dirExists, jpmReaders, registryVars,
                   i, update, rws, pushErr, handlerVars, connVars, pollVars,
                   crashed, evicted, lateSubs>>

\* Lines 147-154: create or append, then Unlock.
RunnerStore147 ==
    /\ ~crashed
    /\ rpc = "l147"
    /\ LET stored == Upsert(Data[JOB], update)
       IN  /\ Data' = [Data EXCEPT ![JOB] = stored]
           /\ update' = stored
           /\ writes' = Append(writes, stored)
    /\ jpmWriter' = jpmWriter \ {Runner}
    /\ rpc' = "ws157"
    /\ UNCHANGED <<sessionVars, jdone, inputVars, dirExists, jpmReaders, registryVars, i, rws, pushErr,
                   handlerVars, connVars, pollVars, crashed, evicted, lateSubs>>

\* getWebSocketConnection: wsConnections.RLock().
RunnerLookupRLock ==
    /\ ~crashed
    /\ rpc \in {"ws157", "ws179"}
    /\ wscWriter = {}
    /\ wscReaders' = wscReaders \cup {Runner}
    /\ rpc' = IF rpc = "ws157" THEN "ws157r" ELSE "ws179r"
    /\ UNCHANGED <<sessionVars, jdone, inputVars, dirExists, storeVars, Connections, wscWriter, i,
                   update, rws, pushErr, handlerVars, connVars, pollVars, crashed,
                   histVars>>

\* getWebSocketConnection: the map read and the deferred RUnlock; then
\* line 157 / 179 branches on ok. With no connection the chunk ends with the
\* sleep and i += batchSize, the final part ends the function.
RunnerLookupRead ==
    /\ ~crashed
    /\ rpc \in {"ws157r", "ws179r"}
    /\ rws' = Connections[JOB]
    /\ wscReaders' = wscReaders \ {Runner}
    /\ IF rpc = "ws157r"
       THEN IF Connections[JOB] # NilConn
            THEN rpc' = "w158" /\ i' = i
            ELSE rpc' = "loop" /\ i' = i + batchSize
       ELSE /\ i' = i
            /\ rpc' = IF Connections[JOB] # NilConn THEN "w181" ELSE "done"
    /\ UNCHANGED <<sessionVars, jdone, inputVars, dirExists, storeVars, Connections, wscWriter,
                   update, pushErr, handlerVars, connVars, pollVars, crashed, histVars>>

\* The runner's three writes: line 158 ws.WriteJSON(update), line 181
\* ws.WriteJSON(result), line 182 ws.WriteMessage(CloseMessage, ...).
RunnerWritePcs == {"w158", "w181", "w182"}

RunnerMessage(pc) ==
    IF pc = "w158" THEN Message("progress", update)
    ELSE IF pc = "w181" THEN Message("completed", update)
    ELSE Message("close", NoProgress)

\* Where the runner goes after a write returned (its error is ignored).
RunnerAfterWrite(pc) ==
    IF pc = "w158" THEN "loop" ELSE IF pc = "w181" THEN "w182" ELSE "c183"

RunnerAdvance(pc) == IF pc = "w158" THEN i + batchSize ELSE i

\* RunnerWriteFail with the error returned to the caller: the runner stops.
RunnerWriteFailReturns ==
    /\ ~crashed
    /\ rpc \in {"w158", "w181", "w182"}
    /\ connState[rws] # "open"
    /\ rpc' = "done"
    /\ pushErr' = TRUE
    /\ UNCHANGED <<sessionVars, jdone, inputVars, dirExists, storeVars, registryVars, i, update, rws,
                   handlerVars, connVars, pollVars, crashed, histVars>>

\* A write that returns an error: the connection is not writable.
RunnerWriteFail ==
    /\ ~crashed
    /\ rpc \in RunnerWritePcs
    /\ ~CanWrite(rws)
    /\ rpc' = RunnerAfterWrite(rpc)
    /\ i' = RunnerAdvance(rpc)
    /\ pushErr' = TRUE
    /\ UNCHANGED <<sessionVars, jdone, inputVars, dirExists, storeVars, registryVars, update, rws,
                   handlerVars, connVars, pollVars, crashed, histVars>>

RunnerWriteBegin ==
    /\ ~crashed
    /\ rpc \in RunnerWritePcs
    /\ CanWrite(rws)
    /\ BeginWrite(Runner, rws)
    /\ rpc' = IF rpc = "w158" THEN "w158e"
              ELSE IF rpc = "w181" THEN "w181e" ELSE "w182e"
    /\ UNCHANGED <<sessionVars, jdone, inputVars, dirExists, storeVars, registryVars, i, update,
                   rws, pushErr, handlerVars, connState, sent, pollVars, crashed,
                   histVars>>

RunnerWriteEnd ==
    /\ ~crashed
    /\ rpc \in {"w158e", "w181e", "w182e"}
    /\ LET pc == IF rpc = "w158e" THEN "w158"
                 ELSE IF rpc = "w181e" THEN "w181" ELSE "w182"
       IN  /\ EndWrite(Runner, rws, RunnerMessage(pc))
           /\ rpc' = RunnerAfterWrite(pc)
           /\ i' = RunnerAdvance(pc)
    /\ pushErr' = (connState[rws] # "open")
    /\ UNCHANGED <<sessionVars, jdone, inputVars, dirExists, storeVars, registryVars, update, rws,
                   handlerVars, pollVars, crashed, histVars>>

\* The library detects the concurrent write in the runner's goroutine: an
\* unrecovered panic in a bare goroutine ends the process.
RunnerWritePanic ==
    /\ ~crashed
    /\ \/ rpc \in RunnerWritePcs /\ CanWrite(rws)
       \/ rpc \in {"w158e", "w181e", "w182e"}
    /\ Overlap(Runner, rws)
    /\ crashed' = TRUE
    /\ UNCHANGED <<sessionVars, inputVars, dirExists, storeVars, registryVars, runnerVars,
                   handlerVars, connVars, pollVars, histVars>>

\* Line 115 with i >= total, lines 165-169: finalUpdate is built and the map
\* is looked up without the lock.
RunnerCheck169 ==
    /\ ~crashed
    /\ rpc = "loop"
    /\ i >= total
    /\ \/ /\ update' = JobProgress(100, "completed", <<>>)
          /\ \E read \in RacyReads(JOB, Runner) :
                 rpc' = IF read.ok THEN "l172" ELSE "l170"
          /\ pushErr' = FALSE
          /\ UNCHANGED <<sessionVars, jdone, inputVars, dirExists, storeVars,
                         registryVars, i, rws, handlerVars, connVars, pollVars,
                         crashed, histVars>>
       \/ /\ StoreReadRace(Runner)
          /\ Fatal

\* RunnerRead172 without the copy of line 173: finalUpdate keeps no
\* predictions.
RunnerRead172NoCopy ==
    /\ ~crashed
    /\ rpc = "l172"
    /\ rpc' = "l174"
    /\ UNCHANGED <<sessionVars, jdone, inputVars, dirExists, storeVars, registryVars, i, update, rws,
                   pushErr, handlerVars, connVars, pollVars, crashed, histVars>>

\* Lines 172-173: the stored predictions are copied into finalUpdate (a
\* record deleted since line 169 reads as the zero JobProgress), without the
\* lock.
RunnerRead172 ==
    /\ ~crashed
    /\ rpc = "l172"
    /\ \/ /\ \E read \in RacyReads(JOB, Runner) :
                 update' = [update EXCEPT !.predictions = read.predictions]
          /\ rpc' = "l174"
          /\ UNCHANGED <<sessionVars, jdone, inputVars, dirExists, storeVars,
                         registryVars, i, rws, pushErr, handlerVars, connVars,
                         pollVars, crashed, histVars>>
       \/ /\ StoreReadRace(Runner)
          /\ Fatal

\* Line 170 / 174: jobProgressMap.Data[jobID] = finalUpdate, without the lock.
RunnerStore174 ==
    /\ ~crashed
    /\ rpc \in {"l170", "l174"}
    /\ \/ /\ Data' = [Data EXCEPT ![JOB] = update]
          /\ writes' = Append(writes, update)
          /\ rpc' = "lock176"
          /\ UNCHANGED <<sessionVars, jdone, inputVars, dirExists, jpmWriter,
                         jpmReaders, registryVars, i, update, rws, pushErr,
                         handlerVars, connVars, pollVars, crashed, evicted,
                         lateSubs>>
       \/ /\ StoreWriteRace(Runner)
          /\ Fatal

\* Line 176: jobProgressMap.Lock().
RunnerLock176 ==
    /\ ~crashed
    /\ rpc = "lock176"
    /\ jpmWriter = {}
    /\ jpmReaders = {}
    /\ jpmWriter' = {Runner}
    /\ rpc' = "l177"
    /\ UNCHANGED <<sessionVars, jdone, inputVars, dirExists, Data, jpmReaders, registryVars, i,
                   update, rws, pushErr, handlerVars, connVars, pollVars, crashed,
                   histVars>>

\* RunnerStore177 without the Unlock of line 178.
RunnerStore177Locked ==
    /\ ~crashed
    /\ rpc = "l177"
    /\ Data' = [Data EXCEPT ![JOB] = update]
    /\ writes' = Append(writes, update)
    /\ rpc' = "ws179"
    /\ UNCHANGED <<sessionVars, jdone, inputVars, dirExists, jpmWriter, jpmReaders,
                   registryVars, i, update, rws, pushErr, handlerVars, connVars,
                   pollVars, crashed, evicted, lateSubs>>

\* Lines 177-178: the terminal write, then Unlock.
RunnerStore177 ==
    /\ ~crashed
    /\ rpc = "l177"
    /\ Data' = [Data EXCEPT ![JOB] = update]
    /\ writes' = Append(writes, update)
    /\ jpmWriter' = jpmWriter \ {Runner}
    /\ rpc' = "ws179"
    /\ UNCHANGED <<sessionVars, jdone, inputVars, dirExists, jpmReaders, registryVars, i, update,
                   rws, pushErr, handlerVars, connVars, pollVars, crashed, evicted, lateSubs>>

\* Lines 183-184: ws.Close() and os.RemoveAll of the job directory.
RunnerClose183 ==
    /\ ~crashed
    /\ rpc = "c183"
    /\ connState' = [connState EXCEPT ![rws] = "closed"]
    /\ sent' = [sent EXCEPT ![rws] = <<>>]
    /\ lateSubs' = lateSubs \ {rws}
    /\ dirExists' = FALSE
    /\ rpc' = "done"
    /\ pushErr' = FALSE
    /\ UNCHANGED <<sessionVars, jdone, inputVars, storeVars, registryVars, i, update, rws,
                   handlerVars, writing, pollVars, crashed, writes, evicted>>


\* --------------------------------------------- PredictionsWebSocketHandler
\* Lines 98-108: a client opens connection c for jobID id and the upgrade
\* succeeds. The JobID of the job is known to clients only once BatchPredict
\* has started it. Connections are numbered in the order they are opened.
Connect(c, id) ==
    /\ ~crashed
    /\ hpc[c] = "idle"
    /\ \A d \in AllConns : d < c => hpc[d] # "idle"
    /\ id = JOB => rpc # "idle"
    /\ hjob' = [hjob EXCEPT ![c] = id]
    /\ connState' = [connState EXCEPT ![c] = "open"]
    /\ hpc' = [hpc EXCEPT ![c] = "lock113"]
    /\ lateSubs' = IF Data[id].status = "completed" THEN lateSubs \cup {c}
                    ELSE lateSubs
    /\ UNCHANGED <<sessionVars, inputVars, dirExists, storeVars, registryVars,
                   runnerVars, hprogress, hws, writing, sent, pollVars,
                   crashed, writes, evicted>>

\* Line 113: wsConnections.Lock().
HandlerLock113(c) ==
    /\ ~crashed
    /\ hpc[c] = "lock113"
    /\ wscWriter = {}
    /\ wscReaders = {}
    /\ wscWriter' = {c}
    /\ hpc' = [hpc EXCEPT ![c] = "l114"]
    /\ UNCHANGED <<sessionVars, inputVars, dirExists, storeVars, Connections, wscReaders,
                   runnerVars, hjob, hprogress, hws, connVars, pollVars,
                   crashed, histVars>>

\* Lines 114-115: the connection is registered, whatever was bound before is
\* overwritten; Unlock.
HandlerRegister114(c) ==
    /\ ~crashed
    /\ hpc[c] = "l114"
    /\ \/ /\ Connections' = [Connections EXCEPT ![hjob[c]] = c]
          /\ wscWriter' = wscWriter \ {c}
          /\ hpc' = [hpc EXCEPT ![c] = "rlock119"]
          /\ UNCHANGED <<sessionVars, inputVars, dirExists, storeVars, wscReaders,
                         runnerVars, hjob, hprogress, hws, connVars, pollVars,
                         crashed, histVars>>
       \/ /\ RegistryWriteRace(c)
          /\ Fatal

\* Line 119: jobProgressMap.RLock().
HandlerRLock119(c) ==
    /\ ~crashed
    /\ hpc[c] = "rlock119"
    /\ jpmWriter = {}
    /\ jpmReaders' = jpmReaders \cup {c}
    /\ hpc' = [hpc EXCEPT ![c] = "l120"]
    /\ UNCHANGED <<sessionVars, inputVars, dirExists, Data, jpmWriter, registryVars,
                   runnerVars, hjob, hprogress, hws, connVars, pollVars,
                   crashed, histVars>>

\* Line 120: progress, ok := jobProgressMap.Data[jobID].
HandlerRead120(c) ==
    /\ ~crashed
    /\ hpc[c] = "l120"
    /\ \/ /\ \E read \in RacyReads(hjob[c], c) :
                 /\ hprogress' = [hprogress EXCEPT ![c] = read]
                 /\ hpc' = [hpc EXCEPT ![c] = IF read.ok THEN "w121"
                                               ELSE "runlock129"]
          /\ UNCHANGED <<sessionVars, inputVars, dirExists, storeVars, registryVars,
                         runnerVars, hjob, hws, connVars, pollVars, crashed,
                         histVars>>
       \/ /\ StoreReadRace(c)
          /\ Fatal

\* Line 122, after conn.WriteJSON(progress) returned; `progress` is not read
\* again after it.
HandlerAfter121(c) == IF hprogress[c].progress = 100 THEN "d123" ELSE "runlock129"

\* Line 121: conn.WriteJSON(progress) returns an error.
HandlerWriteFail121(c) ==
    /\ ~crashed
    /\ hpc[c] = "w121"
    /\ ~CanWrite(c)
    /\ hpc' = [hpc EXCEPT ![c] = HandlerAfter121(c)]
    /\ hprogress' = [hprogress EXCEPT ![c] = NoProgress]
    /\ UNCHANGED <<sessionVars, inputVars, dirExists, storeVars, registryVars, runnerVars,
                   hjob, hws, connVars, pollVars, crashed, histVars>>

\* Line 121: conn.WriteJSON(progress) starts writing.
HandlerWriteBegin121(c) ==
    /\ ~crashed
    /\ hpc[c] = "w121"
    /\ CanWrite(c)
    /\ BeginWrite(c, c)
    /\ hpc' = [hpc EXCEPT ![c] = "w121e"]
    /\ UNCHANGED <<sessionVars, inputVars, dirExists, storeVars, registryVars, runnerVars,
                   hjob, hprogress, hws, connState, sent, pollVars, crashed,
                   histVars>>

HandlerWriteEnd121(c) ==
    /\ ~crashed
    /\ hpc[c] = "w121e"
    /\ EndWrite(c, c, Message("progress", hprogress[c]))
    /\ hpc' = [hpc EXCEPT ![c] = HandlerAfter121(c)]
    /\ hprogress' = [hprogress EXCEPT ![c] = NoProgress]
    /\ UNCHANGED <<sessionVars, inputVars, dirExists, storeVars, registryVars, runnerVars,
                   hjob, hws, pollVars, crashed, histVars>>

\* Line 123: delete(jobProgressMap.Data, jobID), holding only the read lock.
HandlerDelete123(c) ==
    /\ ~crashed
    /\ hpc[c] = "d123"
    /\ \/ /\ Data' = [Data EXCEPT ![hjob[c]] = NoProgress]
          /\ evicted' = (evicted \/ hjob[c] = JOB)
          /\ hpc' = [hpc EXCEPT ![c] = "w124"]
          /\ UNCHANGED <<sessionVars, inputVars, dirExists, jpmWriter, jpmReaders,
                         registryVars, runnerVars, hjob, hprogress, hws,
                         connVars, pollVars, crashed, writes, lateSubs>>
       \/ /\ StoreWriteRace(c)
          /\ Fatal

\* Lines 124 and 125 read wsConnections.Connections[jobID] without the
\* registry's lock and call a method on it: a nil entry is a nil-pointer
\* panic. gin's Recovery middleware keeps the process alive; the read lock of
\* line 119 stays held.
HandlerNilPanic(c) ==
    /\ ~crashed
    /\ hpc[c] \in {"w124", "c125"}
    /\ Connections[hjob[c]] = NilConn
    /\ \/ /\ hpc' = [hpc EXCEPT ![c] = "panicked"]
          /\ UNCHANGED <<sessionVars, inputVars, dirExists, storeVars, registryVars,
                         runnerVars, hjob, hprogress, hws, connVars, pollVars,
                         crashed, histVars>>
       \/ /\ RegistryReadRace(c)
          /\ Fatal

\* Line 124: WriteMessage(CloseMessage, ...) on the registered connection
\* returns an error.
HandlerCloseFail124(c) ==
    /\ ~crashed
    /\ hpc[c] = "w124"
    /\ Connections[hjob[c]] # NilConn
    /\ ~CanWrite(Connections[hjob[c]])
    /\ \/ /\ hpc' = [hpc EXCEPT ![c] = "c125"]
          /\ UNCHANGED <<sessionVars, inputVars, dirExists, storeVars, registryVars,
                         runnerVars, hjob, hprogress, hws, connVars, pollVars,
                         crashed, histVars>>
       \/ /\ RegistryReadRace(c)
          /\ Fatal

\* Line 124: WriteMessage(CloseMessage, ...) starts writing.
HandlerCloseBegin124(c) ==
    /\ ~crashed
    /\ hpc[c] = "w124"
    /\ Connections[hjob[c]] # NilConn
    /\ CanWrite(Connections[hjob[c]])
    /\ \/ /\ hws' = [hws EXCEPT ![c] = Connections[hjob[c]]]
          /\ BeginWrite(c, Connections[hjob[c]])
          /\ hpc' = [hpc EXCEPT ![c] = "w124e"]
          /\ UNCHANGED <<sessionVars, inputVars, dirExists, storeVars, registryVars,
                         runnerVars, hjob, hprogress, connState, sent, pollVars,
                         crashed, histVars>>
       \/ /\ RegistryReadRace(c)
          /\ Fatal

HandlerCloseEnd124(c) ==
    /\ ~crashed
    /\ hpc[c] = "w124e"
    /\ EndWrite(c, hws[c], Message("close", NoProgress))
    /\ hws' = [hws EXCEPT ![c] = NilConn]
    /\ hpc' = [hpc EXCEPT ![c] = "c125"]
    /\ UNCHANGED <<sessionVars, inputVars, dirExists, storeVars, registryVars, runnerVars,
                   hjob, hprogress, pollVars, crashed, histVars>>

\* Lines 125-126: Close() on the registered connection, os.RemoveAll of the
\* job directory.
HandlerClose125(c) ==
    /\ ~crashed
    /\ hpc[c] = "c125"
    /\ Connections[hjob[c]] # NilConn
    /\ \/ /\ connState' = [connState EXCEPT ![Connections[hjob[c]]] = "closed"]
          /\ sent' = [sent EXCEPT ![Connections[hjob[c]]] = <<>>]
          /\ lateSubs' = lateSubs \ {Connections[hjob[c]]}
          /\ dirExists' = (dirExists /\ hjob[c] # JOB)
          /\ hpc' = [hpc EXCEPT ![c] = "runlock129"]
          /\ UNCHANGED <<sessionVars, inputVars, storeVars, registryVars, runnerVars,
                         hjob, hprogress, hws, writing, pollVars, crashed,
                         writes, evicted>>
       \/ /\ RegistryReadRace(c)
          /\ Fatal

\* The library detects a concurrent write in the handler's goroutine: the
\* handler panics in the middle of lines 121-124, the read lock stays held.
HandlerWritePanic(c) ==
    /\ ~crashed
    /\ \/ hpc[c] = "w121" /\ CanWrite(c) /\ Overlap(c, c)
       \/ hpc[c] = "w121e" /\ Overlap(c, c)
       \/ /\ hpc[c] = "w124"
          /\ Connections[hjob[c]] # NilConn
          /\ CanWrite(Connections[hjob[c]])
          /\ Overlap(c, Connections[hjob[c]])
       \/ hpc[c] = "w124e" /\ Overlap(c, hws[c])
    /\ hpc' = [hpc EXCEPT ![c] = "panicked"]
    /\ UNCHANGED <<sessionVars, inputVars, dirExists, storeVars, registryVars, runnerVars,
                   hjob, hprogress, hws, connVars, pollVars, crashed, histVars>>

\* HandlerRUnlock129 that goes on without releasing the read lock.
HandlerRUnlock129Skipped(c) ==
    /\ ~crashed
    /\ hpc[c] = "runlock129"
    /\ hpc' = [hpc EXCEPT ![c] = "read132"]
    /\ UNCHANGED <<sessionVars, inputVars, dirExists, storeVars, registryVars,
                   runnerVars, hjob, hprogress, hws, connVars, pollVars,
                   crashed, histVars>>

\* Line 129: jobProgressMap.RUnlock().
HandlerRUnlock129(c) ==
    /\ ~crashed
    /\ hpc[c] = "runlock129"
    /\ jpmReaders' = jpmReaders \ {c}
    /\ hpc' = [hpc EXCEPT ![c] = "read132"]
    /\ UNCHANGED <<sessionVars, inputVars, dirExists, Data, jpmWriter, registryVars,
                   runnerVars, hjob, hprogress, hws, connVars, pollVars,
                   crashed, histVars>>

\* Lines 132-136: conn.ReadMessage() returns an error once the connection is
\* closed or the peer is gone.
HandlerReadError132(c) ==
    /\ ~crashed
    /\ hpc[c] = "read132"
    /\ connState[c] \in {"gone", "closed"}
    /\ hpc' = [hpc EXCEPT ![c] = "lock139"]
    /\ UNCHANGED <<sessionVars, inputVars, dirExists, storeVars, registryVars, runnerVars,
                   hjob, hprogress, hws, connVars, pollVars, crashed, histVars>>

\* Line 139: wsConnections.Lock().
HandlerLock139(c) ==
    /\ ~crashed
    /\ hpc[c] = "lock139"
    /\ wscWriter = {}
    /\ wscReaders = {}
    /\ wscWriter' = {c}
    /\ hpc' = [hpc EXCEPT ![c] = "l140"]
    /\ UNCHANGED <<sessionVars, inputVars, dirExists, storeVars, Connections, wscReaders,
                   runnerVars, hjob, hprogress, hws, connVars, pollVars,
                   crashed, histVars>>

\* Lines 140-141: delete(wsConnections.Connections, jobID); Unlock.
HandlerUnregister140(c) ==
    /\ ~crashed
    /\ hpc[c] = "l140"
    /\ \/ /\ Connections' = [Connections EXCEPT ![hjob[c]] = NilConn]
          /\ wscWriter' = wscWriter \ {c}
          /\ hpc' = [hpc EXCEPT ![c] = "returned"]
          /\ UNCHANGED <<sessionVars, inputVars, dirExists, storeVars, wscReaders,
                         runnerVars, hjob, hprogress, hws, connVars, pollVars,
                         crashed, histVars>>
       \/ /\ RegistryWriteRace(c)
          /\ Fatal

\* The client side of connection c goes away.
ClientDisconnect(c) ==
    /\ ~crashed
    /\ connState[c] \in {"open", "closeSent"}
    /\ connState' = [connState EXCEPT ![c] = "gone"]
    /\ sent' = [sent EXCEPT ![c] = <<>>]
    /\ lateSubs' = lateSubs \ {c}
    /\ UNCHANGED <<sessionVars, inputVars, dirExists, storeVars, registryVars, runnerVars,
                   handlerVars, writing, pollVars, crashed, writes, evicted>>

\* ------------------------------------------------------ JobProgressHandler
\* Line 153: jobProgressMap.RLock().
PollRLock153(id) ==
    /\ ~crashed
    /\ ppc = "idle"
    /\ jpmWriter = {}
    /\ jpmReaders' = jpmReaders \cup {Poller}
    /\ pjob' = id
    /\ ppc' = "l154"
    /\ UNCHANGED <<sessionVars, inputVars, dirExists, Data, jpmWriter, registryVars,
                   runnerVars, handlerVars, connVars, crashed, histVars>>

\* Lines 154-160: what the request waiting at line 154 can be answered with:
\* a record read there, or 404 "Job not found" when ok is false.
PollResponses == RacyReads(pjob, Poller)

\* Lines 154-160: the read, RUnlock, and the response.
PollRead154 ==
    /\ ~crashed
    /\ ppc = "l154"
    /\ \/ /\ jpmReaders' = jpmReaders \ {Poller}
          /\ ppc' = "idle"
          /\ UNCHANGED <<sessionVars, inputVars, dirExists, Data, jpmWriter,
                         registryVars, runnerVars, handlerVars, connVars, pjob,
                         crashed, histVars>>
       \/ /\ StoreReadRace(Poller)
          /\ Fatal

\* ------------------------------------------------------------ PredictImage
\* What a call of PredictImage leaves unchanged.
jobVars == <<inputVars, dirExists, storeVars, registryVars, runnerVars,
             handlerVars, connVars, pollVars, crashed, histVars>>

\* Lines 371-383 and 329-335: goroutine g (the runner of another job at line
\* 120, or the handler of POST /predict) calls PredictImage. A file that cannot be
\* preprocessed or turned into a tensor returns the error before the lock.
PredictImage(g, failed) ==
    /\ ~crashed
    /\ spc[g] = "idle"
    /\ calls[g] < MaxCalls
    /\ IF failed
       THEN /\ calls' = [calls EXCEPT ![g] = @ + 1]
            /\ UNCHANGED spc
       ELSE /\ spc' = [spc EXCEPT ![g] = "lock338"]
            /\ UNCHANGED calls
    /\ UNCHANGED <<sessionMutex, jobVars>>

\* SessionLock338 that does not wait for the mutex.
SessionLock338NoWait(g) ==
    /\ ~crashed
    /\ spc[g] = "lock338"
    /\ sessionMutex' = sessionMutex \cup {g}
    /\ spc' = [spc EXCEPT ![g] = "run341"]
    /\ UNCHANGED <<calls, jobVars>>

\* Line 338: p.sessionMutex.Lock().
SessionLock338(g) ==
    /\ ~crashed
    /\ spc[g] = "lock338"
    /\ sessionMutex = {}
    /\ sessionMutex' = {g}
    /\ spc' = [spc EXCEPT ![g] = "run341"]
    /\ UNCHANGED <<calls, jobVars>>

\* Lines 341-366: p.model.Session.Run and the mapping of its result; the
\* deferred Unlock runs on every return.
SessionRun341(g) ==
    /\ ~crashed
    /\ spc[g] = "run341"
    /\ sessionMutex' = sessionMutex \ {g}
    /\ spc' = [spc EXCEPT ![g] = "idle"]
    /\ calls' = [calls EXCEPT ![g] = @ + 1]
    /\ UNCHANGED jobVars

\* ------------------------------------------------------------ specification
\* The uploads SpecRunner tries: n files of which at most MaxFailed fail to
\* classify.
RECURSIVE FailingSets(_, _)
FailingSets(n, k) ==
    IF k = 0 THEN {{}}
    ELSE LET smaller == FailingSets(n, k - 1)
         IN  smaller \cup {bad \cup {j} : bad \in smaller, j \in 1..n}

Uploads(n) == FailingSets(n, MaxFailed)

\* The uploads tried under full interleaving: a single file and MaxFiles
\* files (two chunks), with no failure or with the last file failing.
Batches == UNION {{<<n, {}>>, <<n, {n}>>} : n \in {1, MaxFiles}}

RunnerStoreStep ==
    \/ RunnerPredict120
    \/ RunnerSessionLock338
    \/ RunnerSessionRun341
    \/ RunnerChunk
    \/ RunnerLock145
    \/ RunnerStore147
    \/ RunnerLookupRLock
    \/ RunnerLookupRead
    \/ RunnerCheck169
    \/ RunnerRead172
    \/ RunnerStore174
    \/ RunnerLock176
    \/ RunnerStore177

RunnerPushStep ==
    \/ RunnerWriteFail
    \/ RunnerWriteBegin
    \/ RunnerWriteEnd
    \/ RunnerWritePanic
    \/ RunnerClose183

HandlerStep(c) ==
    \/ HandlerLock113(c)
    \/ HandlerRegister114(c)
    \/ HandlerRLock119(c)
    \/ HandlerRead120(c)
    \/ HandlerWriteFail121(c)
    \/ HandlerWriteBegin121(c)
    \/ HandlerWriteEnd121(c)
    \/ HandlerDelete123(c)
    \/ HandlerCloseFail124(c)
    \/ HandlerCloseBegin124(c)
    \/ HandlerCloseEnd124(c)
    \/ HandlerClose125(c)
    \/ HandlerWritePanic(c)
    \/ HandlerRUnlock129(c)
    \/ HandlerReadError132(c)
    \/ HandlerLock139(c)
    \/ HandlerUnregister140(c)

PollStep == PollRLock153(JOB) \/ PollRead154

\* One job, up to MaxConns subscribers, a poller.
Next ==
    \/ \E b \in Batches : BatchPredict(b[1], b[2])
    \/ RunnerStoreStep
    \/ RunnerPushStep
    \/ \E c \in Conns : Connect(c, JOB)
    \/ \E c \in Conns : HandlerStep(c)
    \/ \E c \in Conns : ClientDisconnect(c)
    \/ PollStep

Spec == Init /\ [][Next]_vars

\* A one-file job with one more connection for the same JobID: a subscriber
\* can be displaced, and its handler can unregister the connection of another.
NextTwo ==
    \/ BatchPredict(1, {})
    \/ RunnerStoreStep
    \/ RunnerPushStep
    \/ \E c \in AllConns : Connect(c, JOB)
    \/ \E c \in AllConns : HandlerStep(c)
    \/ \E c \in AllConns : HandlerNilPanic(c)
    \/ \E c \in AllConns : ClientDisconnect(c)
    \/ PollStep

SpecTwo == Init /\ [][NextTwo]_vars

\* Spec with subscribers that may also name a JobID no upload created.
NextGhost ==
    \/ \E b \in Batches : BatchPredict(b[1], b[2])
    \/ RunnerStoreStep
    \/ RunnerPushStep
    \/ \E c \in Conns : \E id \in JobIDs : Connect(c, id)
    \/ \E c \in Conns : HandlerStep(c)
    \/ \E c \in Conns : ClientDisconnect(c)
    \/ PollStep

SpecGhost == Init /\ [][NextGhost]_vars

\* The runner and a poller, no subscriber: every batch size up to MaxItems
\* and every choice of at most MaxFailed failing files.
NextRunner ==
    \/ /\ rpc = "idle"
       /\ \E n \in 1..MaxItems : \E bad \in Uploads(n) : BatchPredict(n, bad)
    \/ RunnerStoreStep
    \/ PollStep

SpecRunner == Init /\ [][NextRunner]_vars

\* Goroutines calling PredictImage on the one PredictionService the server
\* builds: single-image requests and the runners of other jobs.
SessionStep ==
    \/ \E g \in Callers : \E failed \in BOOLEAN : PredictImage(g, failed)
    \/ \E g \in Callers : SessionLock338(g)
    \/ \E g \in Callers : SessionRun341(g)

\* The callers of PredictImage next to the runner of a one-file job (the file
\* classified or failing), no subscriber.
NextSession ==
    \/ SessionStep
    \/ \E bad \in SUBSET {1} : BatchPredict(1, bad)
    \/ RunnerStoreStep

SpecSession == Init /\ [][NextSession]_vars

\* A one-file job with its subscribers and poller, next to goroutines calling
\* PredictImage: all three locks in use at once.
NextLocks ==
    \/ BatchPredict(1, {})
    \/ RunnerStoreStep
    \/ RunnerPushStep
    \/ \E c \in Conns : Connect(c, JOB)
    \/ \E c \in Conns : HandlerStep(c)
    \/ \E c \in Conns : ClientDisconnect(c)
    \/ PollStep
    \/ SessionStep

SpecLocks == Init /\ [][NextLocks]_vars

\* Spec with the scheduling the Go runtime gives: every goroutine that can
\* take a step eventually does, and a goroutine waiting for a sync.RWMutex
\* gets it if it is free again and again. Clients, uploads and polls are under
\* no obligation, and neither is a panic.
RunnerFair ==
    /\ WF_vars(RunnerPredict120 \/ RunnerSessionRun341
               \/ RunnerChunk \/ RunnerStore147 \/ RunnerLookupRead
               \/ RunnerWriteFail \/ RunnerWriteBegin \/ RunnerWriteEnd
               \/ RunnerCheck169 \/ RunnerRead172 \/ RunnerStore174
               \/ RunnerStore177 \/ RunnerClose183)
    /\ SF_vars(RunnerSessionLock338)
    /\ SF_vars(RunnerLock145)
    /\ SF_vars(RunnerLock176)
    /\ SF_vars(RunnerLookupRLock)

HandlerFair(c) ==
    /\ WF_vars(HandlerRegister114(c) \/ HandlerRead120(c)
               \/ HandlerWriteFail121(c) \/ HandlerWriteBegin121(c)
               \/ HandlerWriteEnd121(c) \/ HandlerDelete123(c)
               \/ HandlerCloseFail124(c) \/ HandlerCloseBegin124(c)
               \/ HandlerCloseEnd124(c) \/ HandlerClose125(c)
               \/ HandlerRUnlock129(c) \/ HandlerReadError132(c)
               \/ HandlerUnregister140(c))
    /\ SF_vars(HandlerLock113(c))
    /\ SF_vars(HandlerRLock119(c))
    /\ SF_vars(HandlerLock139(c))

FairSpec ==
    /\ Spec
    /\ RunnerFair
    /\ \A c \in Conns : HandlerFair(c)
    /\ WF_vars(PollRead154)

\* ------------------------------------------------------------------ claims
\* The runner is past the terminal write of line 177.
AfterTerminalWrite ==
    rpc \in {"ws179", "ws179r", "w181", "w181e", "w182", "w182e", "c183", "done"}

\* C1: the progress stored for the job is always within 0..100, never
\* decreases from one write of the job's record to the next, and the last
\* write stores 100.
C1_ProgressMonotone ==
    /\ Data[JOB].ok => Data[JOB].progress \in 0..100
    /\ \A k \in 1..Len(writes) : writes[k].progress \in 0..100
    /\ \A k \in 1..(Len(writes) - 1) : writes[k].progress <= writes[k + 1].progress
    /\ AfterTerminalWrite => writes # <<>> /\ writes[Len(writes)].progress = 100

\* A two-chunk job has run to its end while a subscriber evicted its record.
C1_Witness == rpc = "done" /\ total = MaxFiles /\ evicted /\ Len(writes) = 4

\* C2: a record whose status is "completed" has progress 100 and one result
\* per input file, also when a subscriber evicted the record in between.
C2_CompletedIsFull ==
    (Data[JOB].ok /\ Data[JOB].status = "completed")
        => /\ Data[JOB].progress = 100
           /\ Len(Data[JOB].predictions) = total
           /\ \A q \in 1..Len(Data[JOB].predictions) :
                  Data[JOB].predictions[q].imageName = q

\* C3: once a handler has deleted the job's record, the store never holds a
\* record for the JobID again and every poll answers "Job not found".
C3_EvictedStaysGone ==
    evicted => /\ ~Data[JOB].ok
               /\ ppc = "l154" => \A r \in PollResponses : ~r.ok

\* C4: registering a connection for a JobID that has another connection
\* registered closes (invalidates) the connection it replaces.
C4_SecondBindClosesFirst ==
    [][\A a \in AllConns :
           (Connections[JOB] = a /\ Connections'[JOB] \notin {a, NilConn})
               => connState'[a] \in {"closed", "gone"}]_vars

\* C5: while the record exists its result list has every list stored earlier
\* as a prefix: results are never truncated or reordered.
C5_ResultsOnlyGrow ==
    Data[JOB].ok =>
        \A k \in 1..Len(writes) :
            IsPrefix(writes[k].predictions, Data[JOB].predictions)

\* C6: every dispatched job eventually has status "completed" in the store.
C6_EventuallyCompleted ==
    (rpc # "idle") ~> (Data[JOB].ok /\ Data[JOB].status = "completed")

\* Positions in the frames written to c that carry a "completed" JobProgress.
TerminalFrames(c) ==
    {k \in 1..Len(sent[c]) : sent[c][k].body.status = "completed"}

\* C7: a connection opened when the record was already "completed" is sent the
\* terminal snapshot once, and nothing but the close frame after it.
C7_TerminalSnapshotOnce ==
    \A c \in lateSubs :
        /\ Cardinality(TerminalFrames(c)) <= 1
        /\ \A k \in TerminalFrames(c) :
               \A m \in (k + 1)..Len(sent[c]) : sent[c][m].kind = "close"

\* C8: a connection opened when the record was already "completed" is never
\* registered in wsConnections.
C8_TerminalNeverBound ==
    \A c \in lateSubs : Connections[JOB] # c

\* C9: failures of single files leave the stored (progress, status) sequence
\* as it is when no file fails, leave the results of the other files
\* unchanged, and mark exactly the failing files "Failed".
C9_FailureIsLocal ==
    \A k \in 1..Len(writes) :
        LET ref == RunnerWrites(total, {})
            got == writes[k].predictions
        IN  /\ k <= Len(ref)
            /\ writes[k].progress = ref[k].progress
            /\ writes[k].status = ref[k].status
            /\ Len(got) = Len(ref[k].predictions)
            /\ \A q \in 1..Len(got) :
                   /\ got[q].imageName = ref[k].predictions[q].imageName
                   /\ got[q].status = "Failed" <=> got[q].imageName \in failing
                   /\ got[q].imageName \notin failing
                          => got[q] = ref[k].predictions[q]

\* A two-chunk job with a failing file has run to its end.
C9_Witness == rpc = "done" /\ total = MaxFiles /\ failing # {} /\ Len(writes) = 4

\* A handler has deleted JOB's record or is at the delete of line 123, which
\* the runner's unlocked reads of lines 169-172 can already observe.
Evicting ==
    evicted \/ \E c \in AllConns : hpc[c] = "d123" /\ hjob[c] = JOB

\* C10: a write to the subscriber that returns an error neither stops the
\* runner nor changes what it stores: every record stored is the one an
\* undisturbed run stores at that point (a terminal record loses its results
\* only to an eviction), and a runner that has returned has stored every
\* chunk and the terminal record.
C10_FailedPushHarmless ==
    /\ \A k \in 1..Len(writes) :
           LET ref == RunnerWrites(total, failing)
           IN  /\ k <= Len(ref)
               /\ \/ writes[k] = ref[k]
                  \/ /\ Evicting
                     /\ ref[k].status = "completed"
                     /\ writes[k] = [ref[k] EXCEPT !.predictions = <<>>]
    /\ rpc = "done" => Len(writes) = NumChunks(total) + 2

\* The push of the first chunk returned an error and the runner is about to
\* process the second chunk.
C10_Witness ==
    pushErr /\ rpc = "loop" /\ i = batchSize /\ i < total /\ Len(writes) = 1


\* C11: when no subscriber ever connects, a poll answered after the runner
\* has returned gets the record with status "completed", progress 100 and
\* one result per uploaded file.
C11_PollAfterRunner ==
    (rpc = "done" /\ ppc = "l154" /\ \A c \in AllConns : connState[c] = "new")
        => \A r \in PollResponses :
               /\ r.ok
               /\ r.status = "completed"
               /\ r.progress = 100
               /\ Len(r.predictions) = total
               /\ \A q \in 1..total : r.predictions[q].imageName = q

\* A three-chunk job has returned with no subscriber, and a poll is answered.
C11_Witness ==
    /\ rpc = "done" /\ ppc = "l154" /\ total = MaxItems
    /\ \A c \in AllConns : connState[c] = "new"

\* C12: a job of N files is stored NumChunks(N) = ceil(N / batchSize) times
\* with status "running" before the terminal record, the k-th time with
\* progress floor(min(k * batchSize, N) * 100 / N).
C12_ChunkWrites ==
    /\ \A k \in 1..Len(writes) :
           IF k <= NumChunks(total)
           THEN LET done == IF k * batchSize < total THEN k * batchSize
                            ELSE total
                IN  /\ writes[k].status = "running"
                    /\ writes[k].progress = (done * 100) \div total
           ELSE writes[k].status = "completed"
    /\ AfterTerminalWrite => Len(writes) = NumChunks(total) + 2

\* 25 files: the records stored with status "running" carry 40, 80, 100.
C12_Witness ==
    /\ total = 25
    /\ rpc = "done"
    /\ Len(writes) = 5
    /\ <<writes[1].progress, writes[2].progress, writes[3].progress>> = <<40, 80, 100>>
    /\ writes[3].status = "running" /\ writes[4].status = "completed"


\* C13: once the runner has found a subscriber bound at the terminal write,
\* the terminal state is pushed, the connection closed, and the JobID's
\* binding eventually removed from wsConnections (as long as the process
\* lives).
C13_TerminalPushCloseUnbind ==
    (rpc = "w181") ~> (crashed \/ Connections[JOB] = NilConn)

\* C14: when the runner has returned, the job directory is gone, with or
\* without a subscriber.
C14_JobDirReleased == rpc = "done" => ~dirExists

\* C15: jobProgressMap.Data changes only while some goroutine holds the
\* exclusive lock.
C15_StoreWritesLocked == [][Data' # Data => jpmWriter # {}]_vars

\* C16: no goroutine is at a read of wsConnections.Connections made without
\* the registry's lock while another goroutine holds the lock for writing.
C16_RegistryReadsLocked ==
    \A c \in AllConns :
        (hpc[c] \in {"w124", "c125"} /\ c \notin wscReaders) => wscWriter = {}


\* C18: until the runner's first chunk write the store holds no record for
\* the job and a poll answers "Job not found"; the first record stored has
\* status "running".
C18_NoRecordBeforeFirstWrite ==
    /\ writes = <<>> => /\ ~Data[JOB].ok
                        /\ ppc = "l154" => \A r \in PollResponses : ~r.ok
    /\ writes # <<>> => writes[1].status = "running"

\* The job is dispatched, a subscriber sits in its read loop, a poll is being
\* answered, and the runner has not stored anything yet.
C18_Witness ==
    /\ rpc = "lock145" /\ writes = <<>>
    /\ ppc = "l154"
    /\ \E c \in Conns : hpc[c] = "read132"

\* C19: a subscribe naming a JobID no upload created creates no binding for
\* that JobID.
C19_UnknownJobNotBound == Connections[GHOST] = NilConn

\* The progress values of the JobProgress frames written to c, in order.
Delivered(c) ==
    LET frames == SelectSeq(sent[c], LAMBDA m : m.kind # "close")
    IN  [k \in 1..Len(frames) |-> frames[k].body.progress]

\* C20: the JobProgress frames written to one connection (the handler's
\* snapshot and the runner's pushes) carry non-decreasing progress, also when
\* other connections subscribe to the same job.
C20_DeliveredNonDecreasing ==
    \A c \in AllConns :
        \A k \in 1..(Len(Delivered(c)) - 1) : Delivered(c)[k] <= Delivered(c)[k + 1]


\* Goroutines executing p.model.Session.Run.
InSessionRun ==
    {g \in Callers : spc[g] = "run341"}
        \cup (IF rpc = "run341" THEN {Runner} ELSE {})

\* C17: at most one goroutine executes the model's Session.Run at any time,
\* however many call PredictImage concurrently.
C17_SessionSerialized ==
    /\ Cardinality(InSessionRun) <= 1
    /\ InSessionRun = sessionMutex

\* One goroutine runs the session while the job's runner and another
\* goroutine wait for the mutex.
C17_Witness ==
    /\ Cardinality(InSessionRun) = 1
    /\ rpc = "lock338"
    /\ \E g \in Callers : spc[g] = "lock338"


\* C21: when the lookup after a chunk write finds a connection bound, the
\* runner's next step is the push to that connection of the record it just
\* stored (status "running", every result so far), and a push that is
\* written delivers exactly that record before the loop goes on.
C21_PushAfterChunkWrite ==
    [][/\ (rpc = "ws157r" /\ rpc' # rpc /\ Connections[JOB] # NilConn)
            => /\ rpc' = "w158"
               /\ rws' = Connections[JOB]
               /\ i' = i
               /\ update' = writes'[Len(writes')]
               /\ update'.status = "running"
               /\ Len(update'.predictions)
                      = (IF i + batchSize < total THEN i + batchSize ELSE total)
       /\ (rpc = "w158e" /\ rpc' = "loop" /\ connState[rws] = "open")
            => /\ sent'[rws]
                      = Append(sent[rws], Message("progress", writes[Len(writes)]))
               /\ i' = i + batchSize]_vars

\* The push after the second chunk write delivered the record with the
\* results of both chunks.
C21_Witness ==
    /\ rpc = "loop" /\ i = 2 * batchSize /\ total = MaxFiles /\ ~pushErr
    /\ \E c \in Conns :
           /\ sent[c] # <<>>
           /\ sent[c][Len(sent[c])] = Message("progress", writes[2])
           /\ Len(writes[2].predictions) = total


\* C22: the record of a job that has completed and was not evicted lists one
\* result per uploaded file, in upload order, each with the file's own name
\* and with status "Failed" or "Completed" as its classification went.
C22_ResultsInInputOrder ==
    (AfterTerminalWrite /\ ~evicted)
        => /\ Data[JOB].ok
           /\ Len(Data[JOB].predictions) = total
           /\ \A q \in 1..total :
                  /\ Data[JOB].predictions[q].imageName = q
                  /\ Data[JOB].predictions[q].status
                         = (IF q \in failing THEN "Failed" ELSE "Completed")

\* Two files, the first fails and the second succeeds.
C22_Witness ==
    /\ rpc = "done" /\ total = 2 /\ failing = {1}
    /\ Data[JOB].predictions[1].status = "Failed"
    /\ Data[JOB].predictions[2].status = "Completed"


\* Goroutines holding jobProgressMap's lock / wsConnections' lock, in either
\* mode.
StoreLockHolders == jpmWriter \cup jpmReaders
RegistryLockHolders == wscWriter \cup wscReaders

\* C23: no goroutine holds jobProgressMap's lock and wsConnections' lock at
\* the same time.
C23_LocksNeverNested == StoreLockHolders \cap RegistryLockHolders = {}

\* Both locks are held at once, by different goroutines: a handler holds the
\* store's read lock while the runner reads the registry under its read lock.
C23_Witness ==
    /\ Runner \in wscReaders
    /\ \E c \in Conns : c \in jpmReaders /\ hpc[c] \in {"l120", "w121", "w121e"}


\* C24: the handler goes on to delete the record and close the connection
\* (lines 123-126) only when the record it read has status "completed".
C24_CloseOnlyWhenCompleted ==
    [][\A c \in AllConns :
           (hpc[c] \in {"w121", "w121e"} /\ hpc'[c] = "d123")
               => hprogress[c].status = "completed"]_vars


\* C25: the binding of connection b is removed from wsConnections only by
\* b's own handler, after b disconnected or was closed: the handler of a
\* displaced connection leaves the newer binding in place.
C25_UnbindOnlyOwnBinding ==
    [][\A b \in AllConns :
           (Connections[JOB] = b /\ Connections'[JOB] = NilConn)
               => hpc[b] = "l140"]_vars


\* C26: at most one goroutine is in the middle of a write to a connection.
C26_SingleWriterPerConn ==
    \A c \in AllConns : Cardinality(writing[c]) <= 1


\* Goroutine h of the job (the runner, a handler, the poller) is at a call of
\* Lock or RLock.
AtLock(h) ==
    IF h = Runner
    THEN rpc \in {"lock338", "lock145", "lock176", "ws157", "ws179"}
    ELSE IF h = Poller THEN FALSE
    ELSE hpc[h] \in {"lock113", "rlock119", "lock139"}

\* C27: no goroutine waits for a lock whose holder is itself waiting at a
\* lock: of jobProgressMap's lock, wsConnections' lock and sessionMutex, the
\* holders that keep a goroutine waiting are never at a Lock or RLock call.
C27_NoWaitOnWaiting ==
    /\ rpc \in {"lock145", "lock176"} => \A h \in StoreLockHolders : ~AtLock(h)
    /\ rpc \in {"ws157", "ws179"} => \A h \in wscWriter : ~AtLock(h)
    /\ \A c \in AllConns :
           /\ hpc[c] = "rlock119" => \A h \in jpmWriter : ~AtLock(h)
           /\ hpc[c] \in {"lock113", "lock139"}
                  => \A h \in RegistryLockHolders : ~AtLock(h)
    /\ (rpc = "lock338" \/ \E g \in Callers : spc[g] = "lock338")
           => \A h \in sessionMutex :
                  IF h = Runner THEN ~AtLock(Runner) ELSE spc[h] = "run341"

\* The runner waits for the session mutex while another caller runs the
\* session, a handler is at the Lock of line 113, and the poll handler holds
\* the store's read lock.
C27_Witness ==
    /\ rpc = "lock338"
    /\ \E g \in Callers : spc[g] = "run341" /\ sessionMutex = {g}
    /\ \E c \in Conns : hpc[c] = "lock113"
    /\ Poller \in jpmReaders

====
